---------------------------- MODULE Spec2Model ----------------------------
(***************************************************************************)
(* Temperature Monitoring Dashboard (src/app.py).                          *)
(*                                                                         *)
(* The script loads one sheet per channel from a workbook, melts the wide  *)
(* hour-by-date table into readings, filters the readings by the selected  *)
(* ISO year and renders compliance donuts, a summary table, per-channel    *)
(* panels, the out-of-range histogram of the latest month and the alert    *)
(* list of the latest day.                                                 *)
(*                                                                         *)
(* Text (sheet names, hour labels, period labels) is a sequence of         *)
(* one-character strings.  A calendar date is a record [y, m, d]; NaT is   *)
(* the record of zeros.  An average is the exact fraction [sum, n].        *)
(***************************************************************************)
EXTENDS Integers, Sequences, FiniteSets, TLC

VARIABLES workbook, cache, current_year, pc, channels, selected_year,
          donuts, df_summary, panels, latest_month, selected_channel,
          df_hour, latest_real_day, alerts

vars == <<workbook, cache, current_year, pc, channels, selected_year,
          donuts, df_summary, panels, latest_month, selected_channel,
          df_hour, latest_real_day, alerts>>

(***************************************************************************)
(* Configuration                                                           *)
(***************************************************************************)
DESIRED_MIN == -25
DESIRED_MAX == -10

\* Largest number of data rows of one sheet.
MaxRows == 2

(***************************************************************************)
(* Generic helpers                                                         *)
(***************************************************************************)
None == [none |-> TRUE]

Range(s) == {s[i] : i \in 1..Len(s)}

RECURSIVE SumSeq(_)
SumSeq(s) == IF s = <<>> THEN 0 ELSE Head(s) + SumSeq(Tail(s))

RECURSIVE Flatten(_)
Flatten(ss) == IF ss = <<>> THEN <<>> ELSE Head(ss) \o Flatten(Tail(ss))

\* The finite set S of integers as an ascending sequence.
RECURSIVE SortInts(_)
SortInts(S) ==
    IF S = {} THEN <<>>
    ELSE LET lo == CHOOSE x \in S : \A y \in S : x <= y
         IN  <<lo>> \o SortInts(S \ {lo})

(***************************************************************************)
(* Text                                                                    *)
(***************************************************************************)
Digit == [c \in {"0", "1", "2", "3", "4", "5", "6", "7", "8", "9"} |->
            CASE c = "0" -> 0 [] c = "1" -> 1 [] c = "2" -> 2 [] c = "3" -> 3
              [] c = "4" -> 4 [] c = "5" -> 5 [] c = "6" -> 6 [] c = "7" -> 7
              [] c = "8" -> 8 [] c = "9" -> 9]

IsDigit(c) == c \in DOMAIN Digit

DigitChar(n) == CHOOSE c \in DOMAIN Digit : Digit[c] = n

\* Code points of the characters period labels are made of.
CharCode(c) == IF IsDigit(c) THEN 48 + Digit[c]
               ELSE IF c = "-" THEN 45 ELSE IF c = "W" THEN 87 ELSE 32

\* str.strip(): leading and trailing blanks removed.
RECURSIVE LStrip(_)
LStrip(s) == IF s # <<>> /\ Head(s) = " " THEN LStrip(Tail(s)) ELSE s

RECURSIVE RStrip(_)
RStrip(s) == IF s # <<>> /\ s[Len(s)] = " " THEN RStrip(SubSeq(s, 1, Len(s) - 1)) ELSE s

Strip(s) == RStrip(LStrip(s))

\* The leading run of digits of s.
RECURSIVE TakeDigits(_)
TakeDigits(s) == IF s # <<>> /\ IsDigit(Head(s)) THEN <<Head(s)>> \o TakeDigits(Tail(s))
                 ELSE <<>>

\* str.extract(r"(\d+)"): the first run of digits of s, <<>> (NaN) when s has no digit.
RECURSIVE ExtractDigits(_)
ExtractDigits(s) == IF s = <<>> THEN <<>>
                    ELSE IF IsDigit(Head(s)) THEN TakeDigits(s)
                    ELSE ExtractDigits(Tail(s))

\* pd.to_numeric of a run of digits.
RECURSIVE ToNumeric(_)
ToNumeric(ds) == IF ds = <<>> THEN 0
                 ELSE 10 * ToNumeric(SubSeq(ds, 1, Len(ds) - 1)) + Digit[ds[Len(ds)]]

\* str(n) of a natural number.
RECURSIVE Str(_)
Str(n) == IF n < 10 THEN <<DigitChar(n)>> ELSE Str(n \div 10) \o <<DigitChar(n % 10)>>

\* n written with at least w digits (zero padded).
RECURSIVE ZeroPad(_, _)
ZeroPad(n, w) == IF Len(Str(n)) >= w THEN Str(n) ELSE <<"0">> \o ZeroPad(n, w - 1)

\* Python's string comparison a < b.
RECURSIVE StrLess(_, _)
StrLess(a, b) == IF b = <<>> THEN FALSE
                 ELSE IF a = <<>> THEN TRUE
                 ELSE IF Head(a) # Head(b) THEN CharCode(Head(a)) < CharCode(Head(b))
                 ELSE StrLess(Tail(a), Tail(b))

\* The finite set S of texts as a sequence in ascending string order.
RECURSIVE SortStrs(_)
SortStrs(S) ==
    IF S = {} THEN <<>>
    ELSE LET lo == CHOOSE x \in S : \A y \in S \ {x} : StrLess(x, y)
         IN  <<lo>> \o SortStrs(S \ {lo})

(***************************************************************************)
(* Calendar                                                                *)
(***************************************************************************)
NaT == [y |-> 0, m |-> 0, d |-> 0]

IsLeap(y) == (y % 4 = 0) /\ ((y % 100 # 0) \/ (y % 400 = 0))

DaysBeforeMonth(y, m) ==
    LET cum == <<0, 31, 59, 90, 120, 151, 181, 212, 243, 273, 304, 334>>
    IN  cum[m] + (IF m > 2 /\ IsLeap(y) THEN 1 ELSE 0)

\* date.toordinal(): 0001-01-01 is day 1.
Ordinal(dt) ==
    LET p == dt.y - 1
    IN  365 * p + (p \div 4) - (p \div 100) + (p \div 400) + DaysBeforeMonth(dt.y, dt.m) + dt.d

\* Ordinal of the Monday that starts ISO week 1 of the year.
IsoWeek1Monday(year) ==
    LET firstday     == Ordinal([y |-> year, m |-> 1, d |-> 1])
        firstweekday == (firstday + 6) % 7
        monday       == firstday - firstweekday
    IN  IF firstweekday > 3 THEN monday + 7 ELSE monday

\* date.isocalendar(): the ISO year and ISO week of a date.
isocalendar(dt) ==
    LET today == Ordinal(dt)
        w0    == (today - IsoWeek1Monday(dt.y)) \div 7
    IN  IF today < IsoWeek1Monday(dt.y)
        THEN [year |-> dt.y - 1, week |-> ((today - IsoWeek1Monday(dt.y - 1)) \div 7) + 1]
        ELSE IF w0 >= 52 /\ today >= IsoWeek1Monday(dt.y + 1)
        THEN [year |-> dt.y + 1, week |-> 1]
        ELSE [year |-> dt.y, week |-> w0 + 1]

\* Minutes since the start of the calendar: the order of timestamps.
TsKey(ts) == (Ordinal(ts.date) * 24 + ts.hour) * 60 + ts.minute

\* to_period("M") and the order of month periods.
to_period(ts) == [y |-> ts.date.y, m |-> ts.date.m]

PeriodKey(p) == p.y * 12 + p.m

\* str(Period): "YYYY-MM".
PeriodStr(p) == ZeroPad(p.y, 4) \o <<"-">> \o ZeroPad(p.m, 2)

(***************************************************************************)
(* Spreadsheet cells                                                       *)
(***************************************************************************)
\* A Date cell: empty, text that is no date, or a calendar date.
BlankDate == [kind |-> "blank", date |-> NaT]
TextDate == [kind |-> "text", date |-> NaT]
DateCell(y, m, d) == [kind |-> "date", date |-> [y |-> y, m |-> m, d |-> d]]

\* A temperature cell: empty, text that is no number, or a number.
BlankTemp == [kind |-> "blank", v |-> 0]
TextTemp == [kind |-> "text", v |-> 0]
NumTemp(v) == [kind |-> "num", v |-> v]

(***************************************************************************)
(* load_all_channels, one sheet                                            *)
(***************************************************************************)
\* df.dropna(axis=1, how="all") on the Date column: it survives when some row has a date cell.
HasDateColumn(sheet) == \E i \in 1..Len(sheet.rows) : sheet.rows[i].Date.kind # "blank"

\* df.dropna(axis=1, how="all") on the hour columns: the columns with some non-empty cell.
KeptColumns(sheet) ==
    SelectSeq([c \in 1..Len(sheet.header) |-> c],
              LAMBDA c : \E i \in 1..Len(sheet.rows) : sheet.rows[i].vals[c].kind # "blank")

\* df.melt(id_vars=["Date"]): one record per hour column and row, column by column.
melt(sheet) ==
    LET cols == KeptColumns(sheet)
    IN  Flatten([k \in 1..Len(cols) |->
                    [i \in 1..Len(sheet.rows) |->
                        [Date        |-> sheet.rows[i].Date,
                         Hour        |-> sheet.header[cols[k]],
                         Temperature |-> sheet.rows[i].vals[cols[k]]]]])

\* dropna(subset=["Date", "Temperature"]), then pd.to_datetime(errors="coerce") and .dt.date.
WithBaseDate(df_long) ==
    LET kept == SelectSeq(df_long, LAMBDA r : r.Date.kind # "blank" /\ r.Temperature.kind # "blank")
    IN  [i \in 1..Len(kept) |->
            [Temperature |-> kept[i].Temperature,
             Hour        |-> kept[i].Hour,
             BaseDate    |-> IF kept[i].Date.kind = "date" THEN kept[i].Date.date ELSE NaT]]

\* Hour cleaning: strip, first run of digits, to_numeric, dropna(subset=["Hour_int"]).
WithHourInt(df_long) ==
    LET kept == SelectSeq(df_long, LAMBDA r : ExtractDigits(Strip(r.Hour)) # <<>>)
    IN  [i \in 1..Len(kept) |->
            [Temperature |-> kept[i].Temperature,
             BaseDate    |-> kept[i].BaseDate,
             Hour_int    |-> ToNumeric(ExtractDigits(Strip(kept[i].Hour)))]]

\* time(h, 0) raises ValueError unless 0 <= h <= 23; hour 24 is handled before it.
TimeRaises(h) == h # 24 /\ h > 23

\* datetime.combine(base, time(hh, mm)); NaT carries the date fields of 0001-01-01.
Combine(base, hh, mm) ==
    [date   |-> IF base = NaT THEN [y |-> 1, m |-> 1, d |-> 1] ELSE base,
     hour   |-> hh,
     minute |-> mm]

\* The timestamp fix: hour 24 is 23:59 of the base date.
MakeTimestamp(base, h) == IF h = 24 THEN Combine(base, 23, 59) ELSE Combine(base, h, 0)

\* pd.to_datetime(timestamps): with nanosecond resolution a timestamp of year 1 is out of bounds.
OutOfBounds(ts, u) == u = "ns" /\ ts.date.y < 1678

\* The extra columns of a reading and its channel.
MakeReading(clean, r) ==
    LET ts == MakeTimestamp(r.BaseDate, r.Hour_int)
    IN  [Channel     |-> clean,
         BaseDate    |-> r.BaseDate,
         Hour_int    |-> r.Hour_int,
         Timestamp   |-> ts,
         Date_only   |-> ts.date,
         MonthPeriod |-> to_period(ts),
         ISO_Week    |-> isocalendar(ts.date).week,
         Year        |-> isocalendar(ts.date).year,
         Temperature |-> r.Temperature]

\* pd.to_numeric(errors="coerce") and dropna(subset=["Temperature"]).
NumericTemperature(df_long) ==
    LET kept == SelectSeq(df_long, LAMBDA r : r.Temperature.kind = "num")
    IN  [i \in 1..Len(kept) |-> [kept[i] EXCEPT !.Temperature = kept[i].Temperature.v]]

\* The body of the loop of load_all_channels for one sheet: the exception it raises
\* ("" when none) and the channel's readings.
load_sheet(clean, sheet, u) ==
    LET hours == WithHourInt(WithBaseDate(melt(sheet)))
        rd    == [i \in 1..Len(hours) |-> MakeReading(clean, hours[i])]
    IN  IF ~HasDateColumn(sheet)
        THEN [error |-> "KeyError", df |-> <<>>]
        ELSE IF \E i \in 1..Len(hours) : TimeRaises(hours[i].Hour_int)
        THEN [error |-> "ValueError", df |-> <<>>]
        ELSE IF \E i \in 1..Len(rd) : OutOfBounds(rd[i].Timestamp, u)
        THEN [error |-> "OutOfBoundsDatetime", df |-> <<>>]
        ELSE [error |-> "", df |-> NumericTemperature(rd)]

(***************************************************************************)
(* load_all_channels                                                       *)
(***************************************************************************)
\* sheet_map = dict(zip(clean_sheets, real_sheets)): the last sheet of a trimmed name.
sheet_map(wb, clean) ==
    wb[CHOOSE i \in 1..Len(wb) :
          /\ Strip(wb[i].name) = clean
          /\ \A j \in (i + 1)..Len(wb) : Strip(wb[j].name) # clean]

\* The keys of the channels dict in insertion order.
clean_keys(wb) ==
    LET first == SelectSeq([i \in 1..Len(wb) |-> i],
                           LAMBDA i : \A j \in 1..(i - 1) : Strip(wb[j].name) # Strip(wb[i].name))
    IN  [k \in 1..Len(first) |-> Strip(wb[first[k]].name)]

load_all_channels(wb, u) ==
    LET keys   == clean_keys(wb)
        loaded == [k \in 1..Len(keys) |-> load_sheet(keys[k], sheet_map(wb, keys[k]), u)]
    IN  IF \E k \in 1..Len(keys) : loaded[k].error # ""
        THEN [error |-> loaded[CHOOSE k \in 1..Len(keys) :
                                  /\ loaded[k].error # ""
                                  /\ \A j \in 1..(k - 1) : loaded[j].error = ""].error,
              channels |-> <<>>]
        ELSE [error |-> "",
              channels |-> [k \in 1..Len(keys) |-> [name |-> keys[k], df |-> loaded[k].df]]]

(***************************************************************************)
(* Workbooks                                                               *)
(***************************************************************************)
\* Some sheet of the name, with at most MaxRows data rows over the given headers
\* and cells, satisfies P.
SomeSheet(name, headers, dateCells, tempCells, P(_)) ==
    \E h \in headers, n \in 0..MaxRows :
        \E rows \in [1..n -> [Date : dateCells, vals : [1..Len(h) -> tempCells]]] :
            P([name |-> name, header |-> h, rows |-> rows])

\* Sheets with malformed rows: hour labels without digits, with text around the
\* digits and with numbers outside 1..24, dates and temperatures that do not parse.
LoadHeaders == {<<<<"1">>, <<"2", "4">>>>, <<<<"0">>>>, <<<<"2", "5">>>>,
                <<<<"H", "r">>, <<" ", "7", " ", "h">>>>}

LoadDates == {BlankDate, TextDate, DateCell(2024, 1, 1), DateCell(2024, 12, 30)}

LoadTemps == {BlankTemp, TextTemp, NumTemp(-20), NumTemp(-5)}

NorthName == <<"N", "o", "r", "t", "h", " ">>

SouthName == <<" ", "S", "o", "u", "t", "h">>

(***************************************************************************)
(* The load step                                                           *)
(***************************************************************************)
Idle ==
    /\ pc = "start"
    /\ cache = <<>>
    /\ channels = <<>>
    /\ selected_year = None
    /\ donuts = <<>>
    /\ df_summary = <<>>
    /\ panels = <<>>
    /\ latest_month = None
    /\ selected_channel = <<>>
    /\ df_hour = <<>>
    /\ latest_real_day = None
    /\ alerts = <<>>

\* channels = load_all_channels(gsheet_url); an exception ends the script.  The
\* result stays in the st.cache_data cache.  pd.to_datetime works at nanosecond or
\* at microsecond resolution, depending on the pandas installed.
Load ==
    /\ pc = "start"
    /\ \E unit \in {"ns", "us"} :
          LET res == load_all_channels(workbook, unit)
          IN  /\ pc' = IF res.error = "" THEN "loaded" ELSE res.error
              /\ channels' = res.channels
              /\ cache' = res.channels
    /\ UNCHANGED <<workbook, current_year, selected_year, donuts, df_summary, panels,
                   latest_month, selected_channel, df_hour, latest_real_day, alerts>>

\* Normalization of one sheet with malformed rows.
InitLoad ==
    /\ SomeSheet(NorthName, LoadHeaders, LoadDates, LoadTemps, LAMBDA s : workbook = <<s>>)
    /\ current_year = 2025
    /\ Idle

NextLoad == Load

SpecLoad == InitLoad /\ [][NextLoad]_vars

\* Normalization of one sheet whose dates parse, over the same hour labels.
InitHours ==
    /\ SomeSheet(NorthName, LoadHeaders, {DateCell(2024, 1, 1), DateCell(2024, 12, 30)},
                 {BlankTemp, NumTemp(-20), NumTemp(-5)}, LAMBDA s : workbook = <<s>>)
    /\ current_year = 2025
    /\ Idle

NextHours == Load

SpecHours == InitHours /\ [][NextHours]_vars

(***************************************************************************)
(* Sidebar year filter                                                     *)
(***************************************************************************)
\* {int(y) for df in channels.values() for y in df["Year"].unique()}
all_years(chs) == UNION {{chs[k].df[i].Year : i \in 1..Len(chs[k].df)} : k \in 1..Len(chs)}

\* A filter on the calendar year of the base date instead of the ISO year.
YearRows_calendar(df, year) == SelectSeq(df, LAMBDA r : r.BaseDate.y = year)

\* df[df["Year"] == selected_year]
YearRows(df, year) == SelectSeq(df, LAMBDA r : r.Year = year)

\* A filter that keeps the channels without a reading of the year.
FilterChannels_keep_empty(chs, year) ==
    [k \in 1..Len(chs) |-> [name |-> chs[k].name, df |-> YearRows(chs[k].df, year)]]

\* The dict comprehension: the channels with a reading of the year, restricted to it.
FilterChannels(chs, year) ==
    LET kept == SelectSeq(chs, LAMBDA c : YearRows(c.df, year) # <<>>)
    IN  [k \in 1..Len(kept) |-> [name |-> kept[k].name, df |-> YearRows(kept[k].df, year)]]

\* The selectbox offers all_years (nothing when there is none); then the filter, and
\* st.stop() when no channel is left.
SelectYear ==
    /\ pc = "loaded"
    /\ IF all_years(channels) = {}
       THEN /\ selected_year' = None
            /\ channels' = <<>>
       ELSE \E y \in all_years(channels) :
               /\ selected_year' = y
               /\ channels' = FilterChannels(channels, y)
    /\ pc' = IF channels' = <<>> THEN "stopped" ELSE "filtered"
    /\ UNCHANGED <<workbook, cache, current_year, donuts, df_summary, panels, latest_month,
                   selected_channel, df_hour, latest_real_day, alerts>>

(***************************************************************************)
(* Aggregations                                                            *)
(***************************************************************************)
\* A comparison that leaves the two ends of the range out.
between_exclusive(t) == DESIRED_MIN < t /\ t < DESIRED_MAX

\* Series.between(DESIRED_MIN, DESIRED_MAX): both ends inclusive.
between(t) == DESIRED_MIN <= t /\ t <= DESIRED_MAX

Temperatures(df) == [i \in 1..Len(df) |-> df[i].Temperature]

\* Series.mean() as the exact fraction sum / n.
Mean(df) == [sum |-> SumSeq(Temperatures(df)), n |-> Len(df)]

\* round(x, 1) of x = 100 * safe / total, in tenths of a percent (ties to even).
RoundPercent(safe, total) ==
    LET q == (safe * 1000) \div total
        r == (safe * 1000) % total
    IN  IF 2 * r > total \/ (2 * r = total /\ q % 2 = 1) THEN q + 1 ELSE q

donut_kpi(channel_name, df_channel) ==
    LET total      == Len(df_channel)
        safe_count == Len(SelectSeq(df_channel, LAMBDA r : between(r.Temperature)))
    IN  [channel    |-> channel_name,
         total      |-> total,
         safe_count |-> safe_count,
         out_count  |-> total - safe_count,
         percent    |-> IF total # 0 THEN RoundPercent(safe_count, total) ELSE 0]

\* One row per channel of the dict; mean, min and max of no reading are NaN.
SummaryRow(ch, df) ==
    [Channel |-> ch,
     AvgTemp |-> IF df = <<>> THEN None ELSE Mean(df),
     MinTemp |-> IF df = <<>> THEN None
                 ELSE CHOOSE t \in Range(Temperatures(df)) : \A u \in Range(Temperatures(df)) : t <= u,
     MaxTemp |-> IF df = <<>> THEN None
                 ELSE CHOOSE t \in Range(Temperatures(df)) : \A u \in Range(Temperatures(df)) : t >= u]

channel_temp_summary_df(channels_dict) ==
    [k \in 1..Len(channels_dict) |-> SummaryRow(channels_dict[k].name, channels_dict[k].df)]

\* Series.max() of the BaseDate column: NaT is skipped, no date at all gives a null.
MaxBaseDate(df) ==
    LET ds == {df[i].BaseDate : i \in 1..Len(df)} \ {NaT}
    IN  IF ds = {} THEN NaT ELSE CHOOSE x \in ds : \A y \in ds : Ordinal(y) <= Ordinal(x)

\* df["BaseDate"] == day: a null equals nothing.
SameDay(a, b) == a # NaT /\ b # NaT /\ a = b

\* .replace({0: 24})
HourDisplay(h) == IF h = 0 THEN 24 ELSE h

\* Today panel: the readings of the channel's latest BaseDate by displayed hour.
small_today_hourly(df_channel) ==
    LET latest_day == MaxBaseDate(df_channel)
        df_day     == SelectSeq(df_channel, LAMBDA r : SameDay(r.BaseDate, latest_day))
        hours      == SortInts({HourDisplay(df_day[i].Hour_int) : i \in 1..Len(df_day)})
        sorted     == Flatten([k \in 1..Len(hours) |->
                          SelectSeq(df_day, LAMBDA r : HourDisplay(r.Hour_int) = hours[k])])
    IN  IF df_day = <<>> THEN None
        ELSE [title |-> latest_day,
              x     |-> [i \in 1..Len(sorted) |-> HourDisplay(sorted[i].Hour_int)],
              y     |-> Temperatures(sorted)]

\* The order of the groups of groupby([Year, ISO_Week]): ascending by year, then week.
WeekKey(r) == r.Year * 100 + r.ISO_Week

\* groupby(sort=False): the groups in the order of their first reading.
WeekGroups_unsorted(df) ==
    LET first == SelectSeq([i \in 1..Len(df) |-> i],
                           LAMBDA i : \A j \in 1..(i - 1) : WeekKey(df[j]) # WeekKey(df[i]))
    IN  [k \in 1..Len(first) |-> WeekKey(df[first[k]])]

WeekGroups(df) == SortInts({WeekKey(df[i]) : i \in 1..Len(df)})

small_weekly(df_channel) ==
    LET keys == WeekGroups(df_channel)
    IN  [k \in 1..Len(keys) |->
            LET grp == SelectSeq(df_channel, LAMBDA r : WeekKey(r) = keys[k])
            IN  [Label       |-> Str(grp[1].Year) \o <<"-", "W">> \o Str(grp[1].ISO_Week),
                 Temperature |-> Mean(grp)]]

\* The order of the groups of groupby(MonthPeriod.astype(str)): ascending by the text.
MonthGroups(df) == SortStrs({PeriodStr(df[i].MonthPeriod) : i \in 1..Len(df)})

small_monthly(df_channel) ==
    LET keys == MonthGroups(df_channel)
    IN  [k \in 1..Len(keys) |->
            [MonthPeriod |-> keys[k],
             Temperature |-> Mean(SelectSeq(df_channel,
                                 LAMBDA r : PeriodStr(r.MonthPeriod) = keys[k]))]]

\* The latest MonthPeriod of any channel, None when no channel has a reading.
LatestMonth(chs) ==
    LET ms == UNION {{chs[k].df[i].MonthPeriod : i \in 1..Len(chs[k].df)} : k \in 1..Len(chs)}
    IN  IF ms = {} THEN None ELSE CHOOSE x \in ms : \A y \in ms : PeriodKey(y) <= PeriodKey(x)

\* dfm["Timestamp"].dt.hour.replace(0, 24)
TimestampHourDisplay(r) == IF r.Timestamp.hour = 0 THEN 24 ELSE r.Timestamp.hour

\* The out-of-range count per displayed hour of the channel's readings of the month;
\* empty (no chart is drawn) when the channel has no reading in the month.
peak_hours(dfc, month) ==
    LET dfm          == SelectSeq(dfc, LAMBDA r : r.MonthPeriod = month)
        unique_hours == SortInts({TimestampHourDisplay(dfm[i]) : i \in 1..Len(dfm)})
        df_out       == SelectSeq(dfm, LAMBDA r : ~between(r.Temperature))
    IN  [k \in 1..Len(unique_hours) |->
                 [HourDisplay |-> unique_hours[k],
                  Count       |-> Len(SelectSeq(df_out,
                                     LAMBDA r : TimestampHourDisplay(r) = unique_hours[k]))]]

\* The latest day of the first channel alone.
LatestRealDay_first(chs) == MaxBaseDate(chs[1].df)

\* max(dfc["BaseDate"].max() for dfc in channels.values()); a null when every
\* channel's maximum is null, and Python's max raises when only some are.
LatestRealDay(chs) ==
    LET ds == {MaxBaseDate(chs[k].df) : k \in 1..Len(chs)}
    IN  IF ds = {NaT} THEN NaT
        ELSE CHOOSE x \in ds \ {NaT} : \A y \in ds \ {NaT} : Ordinal(y) <= Ordinal(x)

MaxRaises(chs) ==
    LET ds == {MaxBaseDate(chs[k].df) : k \in 1..Len(chs)}
    IN  NaT \in ds /\ ds # {NaT}

\* strftime("%Y-%m-%d %H:%M")
strftime(ts) ==
    ZeroPad(ts.date.y, 4) \o <<"-">> \o ZeroPad(ts.date.m, 2) \o <<"-">> \o ZeroPad(ts.date.d, 2)
        \o <<" ">> \o ZeroPad(ts.hour, 2) \o <<":">> \o ZeroPad(ts.minute, 2)

\* The alert table: the out-of-range readings of the day, channel by channel, numbered from 1.
alert_rows(chs, day) ==
    LET out == Flatten([k \in 1..Len(chs) |->
                   SelectSeq(chs[k].df,
                             LAMBDA r : SameDay(r.BaseDate, day) /\ ~between(r.Temperature))])
    IN  [i \in 1..Len(out) |->
            [SlNo      |-> i,
             Channel   |-> out[i].Channel,
             Timestamp |-> strftime(out[i].Timestamp),
             Temp      |-> out[i].Temperature]]

(***************************************************************************)
(* The sections of the page                                                *)
(***************************************************************************)
\* Channel Compliance: one donut per channel.
Donuts ==
    /\ pc = "filtered"
    /\ donuts' = [k \in 1..Len(channels) |-> donut_kpi(channels[k].name, channels[k].df)]
    /\ pc' = "donuts"
    /\ UNCHANGED <<workbook, cache, current_year, channels, selected_year, df_summary, panels,
                   latest_month, selected_channel, df_hour, latest_real_day, alerts>>

\* Channel Temperature Summary.
Summary ==
    /\ pc = "donuts"
    /\ df_summary' = channel_temp_summary_df(channels)
    /\ pc' = "summary"
    /\ UNCHANGED <<workbook, cache, current_year, channels, selected_year, donuts, panels,
                   latest_month, selected_channel, df_hour, latest_real_day, alerts>>

\* Channel Panels: Today (current year only) / Weekly / Monthly.
Panels ==
    /\ pc = "summary"
    /\ panels' = [k \in 1..Len(channels) |->
                     [channel |-> channels[k].name,
                      today   |-> IF selected_year = current_year
                                  THEN small_today_hourly(channels[k].df)
                                  ELSE None,
                      weekly  |-> small_weekly(channels[k].df),
                      monthly |-> small_monthly(channels[k].df)]]
    /\ pc' = "panels"
    /\ UNCHANGED <<workbook, cache, current_year, channels, selected_year, donuts, df_summary,
                   latest_month, selected_channel, df_hour, latest_real_day, alerts>>

\* Peak Out-of-Range Hours of the latest month, for the channel picked on the radio.
Peak ==
    /\ pc = "panels"
    /\ latest_month' = LatestMonth(channels)
    /\ IF latest_month' = None
       THEN UNCHANGED <<selected_channel, df_hour>>
       ELSE \E k \in 1..Len(channels) :
               /\ selected_channel' = channels[k].name
               /\ df_hour' = peak_hours(channels[k].df, latest_month')
    /\ pc' = "peak"
    /\ UNCHANGED <<workbook, cache, current_year, channels, selected_year, donuts, df_summary,
                   panels, latest_real_day, alerts>>

\* Alerts Summary of the latest date in the dataset.
Alerts ==
    /\ pc = "peak"
    /\ IF MaxRaises(channels)
       THEN /\ pc' = "TypeError"
            /\ UNCHANGED <<latest_real_day, alerts>>
       ELSE /\ latest_real_day' = LatestRealDay(channels)
            /\ alerts' = alert_rows(channels, latest_real_day')
            /\ pc' = "alerts"
    /\ UNCHANGED <<workbook, cache, current_year, channels, selected_year, donuts, df_summary,
                   panels, latest_month, selected_channel, df_hour>>

(***************************************************************************)
(* The dashboard: a workbook of two channels                               *)
(***************************************************************************)
\* 2024-12-29 is in ISO week 2024-W52, 2024-12-30 in 2025-W1 and 2025-01-06 in 2025-W2.
DashDates == {TextDate, DateCell(2024, 12, 29), DateCell(2024, 12, 30), DateCell(2025, 1, 6)}

NorthHeaders == {<<<<"2", "3">>, <<"2", "4">>>>, <<<<"H", "r">>>>}

NorthTemps == {NumTemp(-26), NumTemp(-10)}

\* The second sheet has one hour column and at most one data row.
SouthSheets ==
    {[name |-> SouthName, header |-> <<<<"0">>>>, rows |-> rows] :
        rows \in {<<>>} \cup {<<[Date |-> dc, vals |-> <<tc>>]>> :
                                  dc \in DashDates, tc \in {NumTemp(-30), NumTemp(-25)}}}

Init ==
    /\ SomeSheet(NorthName, NorthHeaders, DashDates, NorthTemps,
                 LAMBDA n : \E s \in SouthSheets : workbook = <<n, s>>)
    /\ current_year = 2025
    /\ Idle

Next == Load \/ SelectYear \/ Donuts \/ Summary \/ Panels \/ Peak \/ Alerts

Spec == Init /\ [][Next]_vars

(***************************************************************************)
(* Compliance of any channel dataset, the empty one included               *)
(***************************************************************************)
KpiTemps == {BlankTemp, NumTemp(-26), NumTemp(-25), NumTemp(-10), NumTemp(-9)}

\* The second sheet has one hour column and at most one data row.
KpiSouthSheets ==
    {[name |-> SouthName, header |-> <<<<"1">>>>, rows |-> rows] :
        rows \in {<<>>} \cup {<<[Date |-> DateCell(2025, 1, 6), vals |-> <<tc>>]>> :
                                  tc \in {TextTemp, NumTemp(-25)}}}

InitKpi ==
    /\ SomeSheet(NorthName, {<<<<"1">>, <<"2", "4">>>>}, {DateCell(2025, 1, 6)}, KpiTemps,
                 LAMBDA n : \E s \in KpiSouthSheets : workbook = <<n, s>>)
    /\ current_year = 2025
    /\ Idle

\* donut_kpi applied to every loaded channel dataset.
Compliance ==
    /\ pc = "loaded"
    /\ donuts' = [k \in 1..Len(channels) |-> donut_kpi(channels[k].name, channels[k].df)]
    /\ pc' = "donuts"
    /\ UNCHANGED <<workbook, cache, current_year, channels, selected_year, df_summary, panels,
                   latest_month, selected_channel, df_hour, latest_real_day, alerts>>

NextKpi == Load \/ Compliance

SpecKpi == InitKpi /\ [][NextKpi]_vars

(***************************************************************************)
(* Properties of normalization                                             *)
(***************************************************************************)
\* All readings of all channel datasets.
Readings == UNION {Range(channels[k].df) : k \in 1..Len(channels)}

LoadRaised == pc \in {"KeyError", "ValueError", "OutOfBoundsDatetime"}

\* An hour label with at least one digit.
HasDigit(label) == \E i \in 1..Len(label) : IsDigit(label[i])

\* The hour number a label with a digit encodes.
LabelHour(label) == ToNumeric(ExtractDigits(Strip(label)))

\* C1: every reading produced by load_all_channels has an integer HourOfDay in
\* [1,24]; no reading with hour 0 or an hour above 24 is in any channel dataset.
C1_HourOfDayInRange ==
    pc = "loaded" => \A r \in Readings : r.Hour_int \in 1..24

\* C2: the Timestamp of every reading is its BaseDate at HourOfDay:00, and at 23:59
\* for HourOfDay 24, so the date part of the Timestamp equals the BaseDate.
C2_TimestampOnBaseDate ==
    pc = "loaded" =>
        \A r \in Readings :
            /\ r.Timestamp = [date   |-> r.BaseDate,
                              hour   |-> IF r.Hour_int = 24 THEN 23 ELSE r.Hour_int,
                              minute |-> IF r.Hour_int = 24 THEN 59 ELSE 0]
            /\ r.Date_only = r.BaseDate

\* A cell of the sheet that is a well-formed reading: a date that parses, an hour
\* label that encodes an hour of 1..24 and a numeric temperature.
WellFormed(sheet, i, c) ==
    /\ sheet.rows[i].Date.kind = "date"
    /\ HasDigit(sheet.header[c])
    /\ LabelHour(sheet.header[c]) \in 1..24
    /\ sheet.rows[i].vals[c].kind = "num"

\* C3: normalization never fails because of a malformed row: load_all_channels
\* completes, the dataset has exactly the well-formed cells' readings, and a sheet
\* whose rows are all malformed gives an empty dataset.
C3_MalformedRowsOmitted ==
    (pc # "start" /\ \A k \in 1..Len(workbook) : workbook[k].rows # <<>>) =>
        /\ ~LoadRaised
        /\ \A k \in 1..Len(channels) :
              LET sheet == sheet_map(workbook, channels[k].name)
              IN  Len(channels[k].df) =
                      Cardinality({<<i, c>> \in (1..Len(sheet.rows)) \X (1..Len(sheet.header)) :
                                      WellFormed(sheet, i, c)})

\* C4: a record whose Date cell does not parse is dropped, not fatal, so every
\* reading has a non-null BaseDate, a non-null Channel and a numeric Temperature.
C4_UnparsedDateDropped ==
    /\ pc # "OutOfBoundsDatetime"
    /\ pc = "loaded" =>
          \A r \in Readings : r.BaseDate # NaT /\ r.Channel # <<>> /\ r.Temperature \in Int

(***************************************************************************)
(* Properties of the aggregations                                          *)
(***************************************************************************)
\* The number of readings of df that satisfy P.
Count(df, P(_)) == Cardinality({i \in 1..Len(df) : P(df[i])})

\* C5: donut_kpi counts as safe exactly the readings with -25 <= Temperature <= -10,
\* safeCount + outCount = totalCount, the ratio (in tenths of a percent) is within
\* [0,1] and is the rounded safeCount / totalCount, and an empty dataset gives ratio 0.
C5_ComplianceCounts ==
    pc = "donuts" =>
        /\ Len(donuts) = Len(channels)
        /\ \A k \in 1..Len(channels) :
              LET df == channels[k].df
                  d  == donuts[k]
              IN  /\ d.total = Len(df)
                  /\ d.safe_count = Count(df, LAMBDA r : r.Temperature >= -25 /\ r.Temperature <= -10)
                  /\ d.out_count = Count(df, LAMBDA r : r.Temperature < -25 \/ r.Temperature > -10)
                  /\ d.safe_count + d.out_count = d.total
                  /\ d.percent \in 0..1000
                  /\ df = <<>> => d.percent = 0
                  /\ df # <<>> => /\ 2 * (d.percent * d.total - 1000 * d.safe_count) <= d.total
                                  /\ 2 * (1000 * d.safe_count - d.percent * d.total) <= d.total

\* A channel with readings of exactly -25 and -10 and one out of range, beside a
\* channel whose dataset is empty.
C5_Witness ==
    /\ pc = "donuts"
    /\ \E k \in 1..Len(channels) :
          /\ \E i \in 1..Len(channels[k].df) : channels[k].df[i].Temperature = -25
          /\ \E i \in 1..Len(channels[k].df) : channels[k].df[i].Temperature = -10
          /\ donuts[k].safe_count = 2
          /\ donuts[k].out_count = 1
          /\ donuts[k].percent = 667
    /\ \E k \in 1..Len(channels) : channels[k].df = <<>> /\ donuts[k].percent = 0

\* The channel datasets as loaded, before the year filter.
Loaded == cache

OutOfRange(t) == t < -25 \/ t > -10

\* The dataset of the channel picked for the histogram.
SelectedDf == channels[CHOOSE k \in 1..Len(channels) : channels[k].name = selected_channel].df

\* C6: the histogram of the selected channel in the latest month has exactly one
\* entry per HourOfDay (hour 0 shown as 24) present among the channel-month's
\* readings, zero counts included, each counting that hour's out-of-range readings;
\* hour 23 and hour 24 are separate buckets.
C6_HistogramByHourOfDay ==
    (pc = "peak" /\ latest_month # None) =>
        LET dfm     == SelectSeq(SelectedDf, LAMBDA r : r.MonthPeriod = latest_month)
            Hour(r) == IF r.Hour_int = 0 THEN 24 ELSE r.Hour_int
            hours   == {Hour(dfm[i]) : i \in 1..Len(dfm)}
        IN  /\ Len(df_hour) = Cardinality(hours)
            /\ {df_hour[j].HourDisplay : j \in 1..Len(df_hour)} = hours
            /\ \A j \in 1..Len(df_hour) :
                  df_hour[j].Count =
                      Count(dfm, LAMBDA r : Hour(r) = df_hour[j].HourDisplay
                                               /\ OutOfRange(r.Temperature))

\* C7: latest_real_day is the maximum BaseDate over all channel datasets together;
\* the alert list has exactly one alert per reading of that day with a temperature
\* outside [-25,-10], in channel order then reading order, numbered 1..n; a channel
\* without readings on that day adds none (no alert at all is the all-clear).
C7_LatestDayAlerts ==
    pc = "alerts" =>
        LET days == {r.BaseDate : r \in Readings} \ {NaT}
            P    == {p \in UNION {{<<k, i>> : i \in 1..Len(channels[k].df)} : k \in 1..Len(channels)} :
                        /\ latest_real_day # NaT
                        /\ channels[p[1]].df[p[2]].BaseDate = latest_real_day
                        /\ OutOfRange(channels[p[1]].df[p[2]].Temperature)}
            Rank(p) == 1 + Cardinality({q \in P : q[1] < p[1] \/ (q[1] = p[1] /\ q[2] < p[2])})
        IN  /\ IF days = {} THEN latest_real_day = NaT
               ELSE latest_real_day \in days /\ \A d \in days : Ordinal(d) <= Ordinal(latest_real_day)
            /\ Len(alerts) = Cardinality(P)
            /\ \A j \in 1..Len(alerts) : alerts[j].SlNo = j
            /\ \A p \in P :
                  LET r == channels[p[1]].df[p[2]]
                  IN  /\ alerts[Rank(p)].Channel = channels[p[1]].name
                      /\ alerts[Rank(p)].Temp = r.Temperature
                      /\ alerts[Rank(p)].Timestamp = strftime(r.Timestamp)

\* Two alerts of one channel on the latest day while the other channel, whose
\* latest day is earlier, has an out-of-range reading and adds no alert.
C7_Witness ==
    /\ pc = "alerts"
    /\ Len(channels) = 2
    /\ Len(alerts) = 2
    /\ \E k \in 1..Len(channels) :
          /\ \A i \in 1..Len(channels[k].df) : channels[k].df[i].BaseDate # latest_real_day
          /\ \E i \in 1..Len(channels[k].df) : OutOfRange(channels[k].df[i].Temperature)

AfterSummary == {"summary", "panels", "peak", "alerts", "TypeError"}

\* C8: a channel whose dataset (of the selected year) is empty has no row in the
\* summary table; every channel with a reading has exactly one row, whose MinTemp,
\* AvgTemp and MaxTemp are the min, mean and max of its readings, MinTemp <= AvgTemp
\* <= MaxTemp.
C8_SummaryRows ==
    pc \in AfterSummary =>
        LET loaded == Loaded
        IN  /\ \A k \in 1..Len(loaded) :
                  LET rows  == SelectSeq(loaded[k].df, LAMBDA r : r.Year = selected_year)
                      temps == {rows[i].Temperature : i \in 1..Len(rows)}
                      mine  == {j \in 1..Len(df_summary) : df_summary[j].Channel = loaded[k].name}
                  IN  IF rows = <<>> THEN mine = {}
                      ELSE /\ Cardinality(mine) = 1
                           /\ \A j \in mine :
                                 LET row == df_summary[j]
                                 IN  /\ row.MinTemp \in temps /\ \A t \in temps : row.MinTemp <= t
                                     /\ row.MaxTemp \in temps /\ \A t \in temps : t <= row.MaxTemp
                                     /\ row.AvgTemp.n = Len(rows)
                                     /\ row.AvgTemp.sum = SumSeq([i \in 1..Len(rows) |-> rows[i].Temperature])
                                     /\ row.MinTemp * row.AvgTemp.n <= row.AvgTemp.sum
                                     /\ row.AvgTemp.sum <= row.MaxTemp * row.AvgTemp.n
            /\ \A j \in 1..Len(df_summary) :
                  \E k \in 1..Len(loaded) : df_summary[j].Channel = loaded[k].name

\* Two channels were loaded, one has no reading of the selected year and no row; the
\* other's row has MinTemp < AvgTemp < MaxTemp.
C8_Witness ==
    /\ pc = "summary"
    /\ Len(Loaded) = 2
    /\ Len(df_summary) = 1
    /\ df_summary[1].MinTemp * df_summary[1].AvgTemp.n < df_summary[1].AvgTemp.sum
    /\ df_summary[1].AvgTemp.sum < df_summary[1].MaxTemp * df_summary[1].AvgTemp.n

AfterPanels == {"panels", "peak", "alerts", "TypeError"}

\* The period labels of a reading, from its Timestamp.
WeekLabelOf(r) ==
    LET ic == isocalendar(r.Timestamp.date)
    IN  Str(ic.year) \o <<"-", "W">> \o Str(ic.week)

MonthLabelOf(r) == PeriodStr(to_period(r.Timestamp))

\* C9: the weekly series (by ISO year and week, labelled "{Year}-W{Week}") and the
\* monthly series (by MonthPeriod) of every channel dataset have no duplicate period
\* label, are strictly ordered chronologically (every reading of an earlier point is
\* before every reading of a later point), have one point per period with a reading,
\* and each point is the mean Temperature of exactly the readings of its period.
C9_SeriesChronological ==
    pc \in AfterPanels =>
        \A k \in 1..Len(channels) :
            LET df == channels[k].df
                w  == panels[k].weekly
                m  == panels[k].monthly
                Of(L(_), label) == SelectSeq(df, LAMBDA r : L(r) = label)
            IN  /\ {w[j].Label : j \in 1..Len(w)} = {WeekLabelOf(df[i]) : i \in 1..Len(df)}
                /\ {m[j].MonthPeriod : j \in 1..Len(m)} = {MonthLabelOf(df[i]) : i \in 1..Len(df)}
                /\ \A j, l \in 1..Len(w) :
                      j < l => /\ w[j].Label # w[l].Label
                               /\ \A r1 \in Range(Of(WeekLabelOf, w[j].Label)),
                                     r2 \in Range(Of(WeekLabelOf, w[l].Label)) :
                                     TsKey(r1.Timestamp) < TsKey(r2.Timestamp)
                /\ \A j, l \in 1..Len(m) :
                      j < l => /\ m[j].MonthPeriod # m[l].MonthPeriod
                               /\ \A r1 \in Range(Of(MonthLabelOf, m[j].MonthPeriod)),
                                     r2 \in Range(Of(MonthLabelOf, m[l].MonthPeriod)) :
                                     TsKey(r1.Timestamp) < TsKey(r2.Timestamp)
                /\ \A j \in 1..Len(w) :
                      LET grp == Of(WeekLabelOf, w[j].Label)
                      IN  w[j].Temperature =
                              [sum |-> SumSeq([i \in 1..Len(grp) |-> grp[i].Temperature]),
                               n   |-> Len(grp)]
                /\ \A j \in 1..Len(m) :
                      LET grp == Of(MonthLabelOf, m[j].MonthPeriod)
                      IN  m[j].Temperature =
                              [sum |-> SumSeq([i \in 1..Len(grp) |-> grp[i].Temperature]),
                               n   |-> Len(grp)]

\* A channel whose rows are not in date order, with two weeks and two months, and a
\* weekly point that averages two different temperatures.
C9_Witness ==
    /\ pc = "panels"
    /\ \E k \in 1..Len(channels) :
          /\ Len(panels[k].weekly) = 2
          /\ Len(panels[k].monthly) = 2
          /\ TsKey(channels[k].df[1].Timestamp) > TsKey(channels[k].df[Len(channels[k].df)].Timestamp)
          /\ \E j \in 1..2 : panels[k].weekly[j].Temperature = [sum |-> -36, n |-> 2]

AfterFilter == {"filtered", "donuts"} \cup AfterSummary

\* C10: after the year filter the channel mapping holds exactly the channels with a
\* reading whose ISO year (of its Timestamp) is selected_year, each with exactly
\* those readings, so no dataset that reaches an aggregation is empty; when no
\* channel qualifies the run stops before any aggregation.
C10_YearFilter ==
    LET loaded == Loaded
    IN  /\ pc \in AfterFilter =>
              LET InYear(r) == isocalendar(r.Timestamp.date).year = selected_year
                  qual      == SelectSeq(loaded, LAMBDA c : \E i \in 1..Len(c.df) : InYear(c.df[i]))
              IN  /\ channels # <<>>
                  /\ Len(channels) = Len(qual)
                  /\ \A k \in 1..Len(channels) :
                        /\ channels[k].name = qual[k].name
                        /\ channels[k].df = SelectSeq(qual[k].df, InYear)
                        /\ channels[k].df # <<>>
        /\ pc = "stopped" =>
              /\ \A k \in 1..Len(loaded) : loaded[k].df = <<>>
              /\ donuts = <<>> /\ df_summary = <<>> /\ panels = <<>> /\ alerts = <<>>
        /\ pc \in {"donuts"} \cup AfterSummary => donuts # <<>>

\* Two channels were loaded; the filter dropped one and kept a part of the other,
\* a reading of 2024-12-30 that belongs to ISO year 2025.
C10_Witness ==
    /\ pc = "filtered"
    /\ selected_year = 2025
    /\ Len(Loaded) = 2
    /\ Len(channels) = 1
    /\ \E k \in 1..2 : Loaded[k].name = channels[1].name /\ Len(channels[1].df) < Len(Loaded[k].df)
    /\ \E i \in 1..Len(channels[1].df) : channels[1].df[i].BaseDate.y = 2024

=============================================================================
